---- MODULE Spec2Model ----
(***************************************************************************)
(* Model of annotator/elasticsearch.py: the ElasticSearch connection       *)
(* binding, the _Model document type (create_all, drop_all, fetch, search, *)
(* save, delete) and the module-level query builder.                       *)
(*                                                                         *)
(* Python values are represented as follows.                               *)
(*   dict            a function whose DOMAIN is the set of keys            *)
(*   list            a sequence                                            *)
(*   optional value  a sequence of length 0 (absent) or 1                  *)
(*   call argument   [k |-> "omitted"], [k |-> "none"] or [k |-> .., v |-> ..] *)
(* The search engine is outside the repository: each transport call takes  *)
(* one of the outcomes the engine can give, chosen nondeterministically.   *)
(***************************************************************************)
EXTENDS Integers, Sequences, FiniteSets, TLC

\* ------------------------------------------------------------------ bounds
MaxOffset == 2
MaxSmallLimit == 1
MaxClock == 1
TicksPerSecond == 2
MaxHits == 2

\* --------------------------------------------------------- program constants
RESULTS_MAX_SIZE == 200
RESULTS_DEFAULT_SIZE == 20

\* ------------------------------------------------------------ value helpers
EmptyDict == <<>>
Has(d, k) == k \in DOMAIN d
Put(d, k, v) == [x \in (DOMAIN d) \cup {k} |-> IF x = k THEN v ELSE d[x]]
Without(d, k) == [x \in (DOMAIN d) \ {k} |-> d[x]]
Max(a, b) == IF a >= b THEN a ELSE b
Min(a, b) == IF a <= b THEN a ELSE b

Omitted == [k |-> "omitted"]
None == [k |-> "none"]
Val(v) == [k |-> "value", v |-> v]
\* binding of a keyword parameter that has a default value
Default(arg, dflt) == IF arg.k = "omitted" THEN dflt ELSE arg

\* ------------------------------------------------------------ input domains
Fields == {"user", "uri"}
FieldOrder == <<"user", "uri">>
FieldValues == {"alice", "bob"}
Queries == UNION {[S -> FieldValues] : S \in SUBSET Fields}
Offsets == (-1)..MaxOffset
Limits == ((-1)..MaxSmallLimit)
          \cup ((RESULTS_DEFAULT_SIZE - 1)..(RESULTS_DEFAULT_SIZE + 1))
          \cup ((RESULTS_MAX_SIZE - 1)..(RESULTS_MAX_SIZE + 1))
QueryArgs == {Omitted, None} \cup {Val(q) : q \in Queries}
OffsetArgs == {Omitted, None} \cup {Val(o) : o \in Offsets}
LimitArgs == {Omitted, None} \cup {Val(l) : l \in Limits}

Ids == {"i1", "i2"}
\* ids the engine generates for bodies that carry none; callers pick "i1"
AutoIds == {"i2"}
Texts == {"hello", "bye"}
IndexNames == {"annotator", "other"}
DocTypes == {"annotation", "document"}
Dates == {"2014-01-01", "2014-01-02"}

\* connection descriptors, written as urlparse splits them
DefaultHost ==
    [url |-> "http://127.0.0.1:9200", hostname |-> "127.0.0.1", port |-> <<9200>>,
     username |-> <<>>, password |-> <<>>, path |-> ""]
AuthHost ==
    [url |-> "http://bob@es.example/es", hostname |-> "es.example", port |-> <<>>,
     username |-> <<"bob">>, password |-> <<>>, path |-> "/es"]
Hosts == {DefaultHost, AuthHost}

VARIABLES
    esHost,        \* ElasticSearch.host
    esIndex,       \* ElasticSearch.index
    connection,    \* ElasticSearch._connection: <<>> while the attribute is unset
    constructed,   \* how many transport handles _connect has built for the binding
    accesses,      \* how many times the conn property has been read (capped)
    firstHost,     \* the host attribute at the first read of conn, <<>> before it
    indices,       \* engine: names of the indices that exist
    mappings,      \* engine: <<index, doc_type>> pairs with an installed mapping
    store,         \* engine: stored documents, id -> _source
    doc,           \* the document instance the caller holds (a _Model dict)
    persisted,     \* doc was successfully saved, or came from fetch or search
    saves,         \* successful save() calls on doc so far (capped at 2)
    clock,         \* latest reading of datetime.now
    last,          \* the operation that ran last: its name, arguments and outcome
    calls,         \* the transport calls the last operation issued, in order
    ret,           \* what the last operation returned
    args           \* the arguments the caller passes to the query builder

vars == <<args, esHost, esIndex, connection, constructed, accesses, firstHost, indices,
          mappings, store, doc, persisted, saves, clock, last, calls, ret>>

bindingVars == <<esHost, esIndex>>
engineVars == <<indices, mappings, store>>
docVars == <<doc, persisted, saves, clock>>

\* ---------------------------------------------------------- ElasticSearch
\* ElasticSearch._connect: the connargs the transport handle is built from
_connect(host) ==
    LET base == [x \in {"host"} |-> host.hostname]
        auth == IF Len(host.username) > 0 \/ Len(host.password) > 0
                THEN Put(base, "http_auth",
                         <<IF Len(host.username) > 0 THEN host.username[1] ELSE "",
                           IF Len(host.password) > 0 THEN host.password[1] ELSE "">>)
                ELSE base
        port == IF Len(host.port) > 0 THEN Put(auth, "port", host.port[1]) ELSE auth
    IN  IF host.path # "" THEN Put(port, "url_prefix", host.path) ELSE port

NeedsConnectAlways(attr) == TRUE
\* ElasticSearch.conn: not hasattr(self, '_connection')
NeedsConnect(attr) == Len(attr) = 0

\* ElasticSearch.conn: the attribute after one read of the property
conn ==
    IF NeedsConnect(connection)
    THEN <<[args |-> _connect(esHost), serial |-> constructed + 1]>>
    ELSE connection

\* one read of the conn property, as every transport-using operation makes
ReadConn ==
    /\ connection' = conn
    /\ constructed' = IF NeedsConnect(connection) THEN constructed + 1 ELSE constructed
    /\ accesses' = Min(accesses + 1, 2)
    /\ firstHost' = IF accesses = 0 THEN <<esHost>> ELSE firstHost

connVars == <<connection, constructed, accesses, firstHost>>

\* ------------------------------------------------------------- timestamps
\* datetime.isoformat() of the clock reading t: the fraction is left out when
\* it is zero
isoformat(t) ==
    IF t % TicksPerSecond = 0
    THEN <<t \div TicksPerSecond>>
    ELSE <<t \div TicksPerSecond, t % TicksPerSecond>>

\* the instant an ISO-8601 string denotes
TimeOf(s) == s[1] * TicksPerSecond + (IF Len(s) > 1 THEN s[2] ELSE 0)

\* ----------------------------------------------------------- query builder
RECURSIVE MatchClausesFrom(_, _)
\* the list comprehension of _build_query, over the keys from position i on
MatchClausesFrom(query, i) ==
    IF i > Len(FieldOrder) THEN <<>>
    ELSE LET k == FieldOrder[i]
         IN  (IF Has(query, k) THEN <<[match |-> (k :> query[k])]>> ELSE <<>>)
             \o MatchClausesFrom(query, i + 1)

match_clauses_without_match_all(query) == MatchClausesFrom(query, 1)
\* _build_query: match_clauses, with match_all appended to an empty list
match_clauses(query) ==
    LET clauses == MatchClausesFrom(query, 1)
    IN  IF Len(clauses) = 0
        THEN Append(clauses, [match_all |-> EmptyDict])
        ELSE clauses

PageUnclamped(offset, limit) == [from |-> offset, size |-> limit]
\* _build_query: the 'from' and 'size' entries
Page(offset, limit) ==
    [from |-> Max(0, offset), size |-> Min(RESULTS_MAX_SIZE, Max(0, limit))]

\* module-level _build_query(query, offset, limit)
_build_query(query, offset, limit) ==
    [sort |-> <<[updated |-> [order |-> "desc", ignore_unmapped |-> TRUE]]>>,
     from |-> Page(offset, limit).from,
     size |-> Page(offset, limit).size,
     query |-> [bool |-> [must |-> match_clauses(query)]]]

\* _Model._build_query(query, offset, limit), its None arguments defaulted
Model_build_query(query, offset, limit) ==
    _build_query(IF query.k = "none" THEN EmptyDict ELSE query.v,
               IF offset.k = "none" THEN 0 ELSE offset.v,
               IF limit.k = "none" THEN RESULTS_DEFAULT_SIZE ELSE limit.v)

\* _Model(source, id=id): dict(source, id=id)
MakeDocument(source, id) == Put(source, "id", id)

\* the hit lists an engine holding `stored` can answer a search of `size` with
RECURSIVE HitLists(_, _)
HitLists(ids, n) ==
    IF n = 0 \/ ids = {} THEN {<<>>}
    ELSE {<<>>} \cup UNION {{<<i>> \o rest : rest \in HitLists(ids \ {i}, n - 1)} : i \in ids}

\* ------------------------------------------------------------------- Init
Init ==
    /\ args = [query |-> Omitted, offset |-> Omitted, limit |-> Omitted]
    /\ esHost = DefaultHost
    /\ esIndex = "annotator"
    /\ connection = <<>>
    /\ constructed = 0
    /\ accesses = 0
    /\ firstHost = <<>>
    /\ indices = {}
    /\ mappings = {}
    /\ store = EmptyDict
    /\ doc = EmptyDict
    /\ persisted = FALSE
    /\ saves = 0
    /\ clock = 0
    /\ last = [op |-> "init", outcome |-> "ok"]
    /\ calls = <<>>
    /\ ret = <<>>

\* a stored body as save() writes it at clock reading t
StoredBody(t, text) ==
    [x \in {"created", "updated", "text"} |->
        IF x = "text" THEN text ELSE isoformat(t)]

\* the query-builder runs start from any caller arguments, against an engine
\* that already holds two documents
InitQuery ==
    /\ args \in [query : QueryArgs, offset : OffsetArgs, limit : LimitArgs]
    /\ esHost = DefaultHost
    /\ esIndex = "annotator"
    /\ connection = <<>>
    /\ constructed = 0
    /\ accesses = 0
    /\ firstHost = <<>>
    /\ indices = {"annotator"}
    /\ mappings = {<<"annotator", "annotation">>}
    /\ store = ("i1" :> StoredBody(0, "hello")) @@ ("i2" :> StoredBody(1, "bye"))
    /\ doc = EmptyDict
    /\ persisted = FALSE
    /\ saves = 0
    /\ clock = 1
    /\ last = [op |-> "init", outcome |-> "ok"]
    /\ calls = <<>>
    /\ ret = <<>>

\* --------------------------------------------------- query-builder actions
\* a direct call of the module-level _build_query(query, offset, limit)
CallBuildQuery ==
    /\ args.query.k = "value" /\ args.offset.k = "value" /\ args.limit.k = "value"
    /\ ret' = <<_build_query(args.query.v, args.offset.v, args.limit.v)>>
    /\ calls' = <<>>
    /\ last' = [op |-> "_build_query", outcome |-> "ok"]
    /\ UNCHANGED <<args, bindingVars, connVars, engineVars, docVars>>

\* Model._build_query(query=None, offset=None, limit=None)
CallModelBuildQuery ==
    /\ ret' = <<Model_build_query(Default(args.query, None), Default(args.offset, None),
                                Default(args.limit, None))>>
    /\ calls' = <<>>
    /\ last' = [op |-> "Model._build_query", outcome |-> "ok"]
    /\ UNCHANGED <<args, bindingVars, connVars, engineVars, docVars>>

\* Model.search(query=None, offset=0, limit=RESULTS_DEFAULT_SIZE, raw_result=..),
\* through search_raw; the built request is never an empty dict, so the
\* transport call is always made
search ==
    \E raw_result \in BOOLEAN, failed \in BOOLEAN :
        LET q == Model_build_query(Default(args.query, None), Default(args.offset, Val(0)),
                                 Default(args.limit, Val(RESULTS_DEFAULT_SIZE)))
        IN  /\ ReadConn
            /\ calls' = <<[op |-> "search", index |-> esIndex, body |-> q]>>
            /\ last' = [op |-> "search",
                        outcome |-> IF failed THEN "TransportError" ELSE "ok"]
            /\ IF failed
               THEN ret' = <<>>
               ELSE \E hits \in HitLists(DOMAIN store, Min(q.size, MaxHits)) :
                       ret' = <<[raw |-> raw_result,
                                 docs |-> [i \in 1..Len(hits) |->
                                              IF raw_result
                                              THEN [_id |-> hits[i], _source |-> store[hits[i]]]
                                              ELSE MakeDocument(store[hits[i]], hits[i])]]>>
            /\ UNCHANGED <<args, bindingVars, engineVars, docVars>>

NextQuery == CallBuildQuery \/ CallModelBuildQuery \/ search

SpecQuery == InitQuery /\ [][NextQuery]_vars

\* ----------------------------------------------------- document lifecycle
_add_created_always(ann, now) == Put(ann, "created", isoformat(now))
\* _add_created(ann), the clock reading `now`
_add_created(ann, now) ==
    IF ~Has(ann, "created") THEN Put(ann, "created", isoformat(now)) ELSE ann

_add_updated_never(ann, now) == ann
\* _add_updated(ann), the clock reading `now`
_add_updated(ann, now) == Put(ann, "updated", isoformat(now))

op_type_always_index(d) == "index"
\* save: the op_type chosen from the document
op_type(d) == IF ~Has(d, "id") THEN "create" ELSE "index"

SaveBodyWithoutId(d) == Without(d, "id")
\* save: body=self, the whole document
SaveBody(d) == d

\* engine, under the mapping get_mapping installs ('_id': {'path': 'id'}): the
\* _id of an indexed body is its 'id' field, or generated when it has none
EngineAssignedId(body, fresh) == IF Has(body, "id") THEN body["id"] ELSE fresh

\* engine, under the mapping get_mapping installs ('_source': excludes ['id'])
EngineStoredSource(body) == Without(body, "id")

DeleteCallsAlways(d, index) ==
    <<[op |-> "delete", index |-> index, id |-> IF Has(d, "id") THEN d["id"] ELSE "i1"]>>
\* delete: the transport calls it issues
DeleteCalls(d, index) ==
    IF Has(d, "id") THEN <<[op |-> "delete", index |-> index, id |-> d["id"]]>> ELSE <<>>

FetchReturnNoId(engine, source, id) ==
    IF engine = "NotFoundError" THEN [outcome |-> "ok", ret |-> <<None>>]
    ELSE IF engine = "found" THEN [outcome |-> "ok", ret |-> <<Val(source)>>]
    ELSE [outcome |-> engine, ret |-> <<>>]
\* fetch: what it returns or raises for the engine's answer to the get call
FetchReturn(engine, source, id) ==
    IF engine = "NotFoundError" THEN [outcome |-> "ok", ret |-> <<None>>]
    ELSE IF engine = "found" THEN [outcome |-> "ok", ret |-> <<Val(MakeDocument(source, id))>>]
    ELSE [outcome |-> engine, ret |-> <<>>]

\* the documents a caller builds: a text, with or without an id of the
\* caller's own choosing
NewDocuments ==
    {[x \in keys \cup {"text"} |-> IF x = "id" THEN "i1" ELSE "hello"] :
        keys \in SUBSET {"id"}}

\* the caller builds a new in-memory document, Model(fields)
NewDocument ==
    \E d \in NewDocuments :
        /\ doc' = d
        /\ persisted' = FALSE
        /\ saves' = 0
        /\ last' = [op |-> "new", outcome |-> "ok"]
        /\ calls' = <<>>
        /\ ret' = <<>>
        /\ UNCHANGED <<args, bindingVars, connVars, engineVars, clock>>

\* the caller edits a non-lifecycle field of the document
EditField ==
    \E text \in Texts :
        /\ doc' = Put(doc, "text", text)
        /\ last' = [op |-> "edit", outcome |-> "ok"]
        /\ calls' = <<>>
        /\ ret' = <<>>
        /\ UNCHANGED <<args, bindingVars, connVars, engineVars, persisted, saves, clock>>

\* doc.save(refresh): the clock is read by _add_created (only when it stamps)
\* and again by _add_updated; a later reading is never earlier
save ==
    \E refresh \in BOOLEAN, now1 \in clock..MaxClock, succeeds \in BOOLEAN :
      \E now2 \in now1..MaxClock, fresh \in AutoIds :
        LET stamped == _add_updated(_add_created(doc, now1), now2)
            body == SaveBody(stamped)
            id == EngineAssignedId(body, fresh)
        IN  /\ Has(doc, "created") => now1 = clock
            /\ ReadConn
            /\ clock' = now2
            /\ calls' = <<[op |-> "index", index |-> esIndex, body |-> body,
                           op_type |-> op_type(doc), refresh |-> refresh]>>
            /\ ret' = <<>>
            /\ IF succeeds
               THEN /\ ~Has(body, "id") => fresh \notin DOMAIN store
                    /\ store' = Put(store, id, EngineStoredSource(body))
                    /\ doc' = Put(stamped, "id", id)
                    /\ persisted' = TRUE
                    /\ saves' = Min(saves + 1, 2)
                    /\ last' = [op |-> "save", outcome |-> "ok", id |-> <<id>>,
                                hadId |-> Has(doc, "id"), hadCreated |-> Has(doc, "created")]
               ELSE /\ fresh = "i2"
                    /\ doc' = stamped
                    /\ last' = [op |-> "save", outcome |-> "TransportError", id |-> <<>>,
                                hadId |-> Has(doc, "id"), hadCreated |-> Has(doc, "created")]
                    /\ UNCHANGED <<store, persisted, saves>>
            /\ UNCHANGED <<args, bindingVars, indices, mappings>>

\* doc.delete(): the engine removes the document, reports that it has none
\* under that id, or the transport fails
delete ==
    \E engine \in {"ok", "NotFoundError", "TransportError"} :
        /\ calls' = DeleteCalls(doc, esIndex)
        /\ IF Len(calls') = 0
           THEN /\ engine = "ok"
                /\ UNCHANGED <<connVars, store>>
           ELSE /\ ReadConn
                /\ engine = "ok" => calls'[1].id \in DOMAIN store
                /\ engine = "NotFoundError" => calls'[1].id \notin DOMAIN store
                /\ store' = IF engine = "ok" THEN Without(store, calls'[1].id) ELSE store
        /\ last' = [op |-> "delete", outcome |-> engine]
        /\ ret' = <<>>
        /\ UNCHANGED <<args, bindingVars, indices, mappings, docVars>>

\* Model.fetch(id): the engine answers the get call with the document, with
\* not-found, or the transport fails
fetch ==
    \E id \in Ids, engine \in {"found", "NotFoundError", "TransportError"} :
        /\ engine = "found" => id \in DOMAIN store
        /\ engine = "NotFoundError" => id \notin DOMAIN store
        /\ ReadConn
        /\ calls' = <<[op |-> "get", index |-> esIndex, id |-> id]>>
        /\ LET r == FetchReturn(engine, IF id \in DOMAIN store THEN store[id] ELSE EmptyDict, id)
           IN  /\ ret' = r.ret
               /\ last' = [op |-> "fetch", outcome |-> r.outcome, engine |-> engine, id |-> <<id>>]
        /\ UNCHANGED <<args, bindingVars, engineVars, docVars>>

\* the caller goes on working with the document fetch returned
UseFetched ==
    /\ last.op = "fetch" /\ Len(ret) = 1 /\ ret[1].k = "value"
    /\ doc' = ret[1].v
    /\ persisted' = TRUE
    /\ saves' = 0
    /\ last' = [op |-> "use", outcome |-> "ok"]
    /\ calls' = <<>>
    /\ ret' = <<>>
    /\ UNCHANGED <<args, bindingVars, connVars, engineVars, clock>>

Next == NewDocument \/ EditField \/ save \/ delete \/ fetch \/ UseFetched

Spec == Init /\ [][Next]_vars

\* ------------------------------------------------- binding and mapping
\* the caller assigns the host attribute of the binding
SetHost ==
    \E h \in Hosts :
        /\ esHost' = h
        /\ last' = [op |-> "set_host", outcome |-> "ok"]
        /\ calls' = <<>>
        /\ ret' = <<>>
        /\ UNCHANGED <<args, esIndex, connVars, engineVars, docVars>>

\* the caller assigns the index attribute of the binding
SetIndex ==
    \E n \in IndexNames :
        /\ esIndex' = n
        /\ last' = [op |-> "set_index", outcome |-> "ok"]
        /\ calls' = <<>>
        /\ ret' = <<>>
        /\ UNCHANGED <<args, esHost, connVars, engineVars, docVars>>

\* a document or collection reads es.conn
AccessConn ==
    /\ ReadConn
    /\ last' = [op |-> "conn", outcome |-> "ok"]
    /\ calls' = <<>>
    /\ ret' = connection'
    /\ UNCHANGED <<args, bindingVars, engineVars, docVars>>

CreateErrors == {"IndexAlreadyExistsException", "InvalidIndexNameException",
                 "OtherRequestError", "TransportError"}
PutErrors == {"MergeMappingException", "OtherRequestError", "TransportError"}

\* create_all: the error it raises after indices.create answered `c`, "" when
\* it goes on to install the mapping ("TransportError" is any exception that
\* is not a RequestError)
AfterCreate(c) ==
    IF c = "OtherRequestError" \/ c = "TransportError" THEN c ELSE ""

\* create_all: the error it raises after indices.put_mapping answered `p`,
\* "" when it returns normally
AfterPutMapping(p) ==
    IF p = "MergeMappingException" THEN "RuntimeError"
    ELSE IF p = "TransportError" THEN p
    ELSE ""

\* Model.create_all() of the collection doc_type, on the day `date`
create_all ==
    \E doc_type \in DocTypes, date \in Dates, c \in {"ok"} \cup CreateErrors,
       p \in {"ok"} \cup PutErrors :
        LET raisedByCreate == AfterCreate(c)
            raised == IF raisedByCreate # "" THEN raisedByCreate ELSE AfterPutMapping(p)
            createCall == [op |-> "indices.create", index |-> esIndex]
            putCall == [op |-> "indices.put_mapping", index |-> esIndex,
                        doc_type |-> doc_type]
        IN  /\ c = "ok" => esIndex \notin indices
            /\ c = "IndexAlreadyExistsException" => esIndex \in indices
            /\ raisedByCreate # "" => p = "ok"
            /\ ReadConn
            /\ indices' = IF c = "ok" THEN indices \cup {esIndex} ELSE indices
            /\ mappings' = IF raisedByCreate = "" /\ p = "ok"
                           THEN mappings \cup {<<esIndex, doc_type>>} ELSE mappings
            /\ calls' = IF raisedByCreate # "" THEN <<createCall>>
                        ELSE <<createCall, putCall>>
            /\ last' = [op |-> "create_all",
                        outcome |-> IF raised = "" THEN "ok" ELSE raised,
                        create |-> c,
                        put |-> IF raisedByCreate # "" THEN "not called" ELSE p,
                        message |-> IF raised = "RuntimeError"
                                    THEN <<esHost.url, esIndex, esIndex, <<esIndex, date>>>>
                                    ELSE <<>>]
            /\ ret' = <<>>
            /\ UNCHANGED <<args, bindingVars, store, docVars>>

\* Model.drop_all(): exists, then close and delete; `failing` is the transport
\* call that raises, 0 for none
drop_all ==
    \E failing \in 0..3 :
        LET existsCall == [op |-> "indices.exists", index |-> esIndex]
            closeCall == [op |-> "indices.close", index |-> esIndex]
            deleteCall == [op |-> "indices.delete", index |-> esIndex]
            present == esIndex \in indices
            dropped == present /\ failing = 0
        IN  /\ failing > 1 => present
            /\ ReadConn
            /\ calls' = IF failing = 1 \/ ~present THEN <<existsCall>>
                        ELSE IF failing = 2 THEN <<existsCall, closeCall>>
                        ELSE <<existsCall, closeCall, deleteCall>>
            /\ indices' = IF dropped THEN indices \ {esIndex} ELSE indices
            /\ mappings' = IF dropped THEN {m \in mappings : m[1] # esIndex} ELSE mappings
            /\ last' = [op |-> "drop_all",
                        outcome |-> IF failing = 0 THEN "ok" ELSE "TransportError"]
            /\ ret' = <<>>
            /\ UNCHANGED <<args, bindingVars, store, docVars>>

NextAdmin == SetHost \/ SetIndex \/ AccessConn \/ create_all \/ drop_all

SpecAdmin == Init /\ [][NextAdmin]_vars

\* ================================================================ claims
BuilderRan == last.op \in {"_build_query", "Model._build_query", "search"}
\* the request the last builder call produced (search hands it to the transport)
BuiltRequest == IF last.op = "search" THEN calls[1].body ELSE ret[1]
\* the caller's query specification, None and an omitted argument having no fields
QuerySpec == IF args.query.k = "value" THEN args.query.v ELSE EmptyDict

\* C1: the 'must' list of every built request holds exactly one match clause
\* {field: value} per field/value pair of the query specification and nothing
\* else, or exactly one match-all clause when the specification has no fields
\* (empty or None); it is never empty.
C1_MustListMatchesSpec ==
    BuilderRan =>
        LET must == BuiltRequest.query.bool.must
        IN  /\ Len(must) >= 1
            /\ IF DOMAIN QuerySpec = {}
               THEN must = <<[match_all |-> <<>>]>>
               ELSE /\ Len(must) = Cardinality(DOMAIN QuerySpec)
                    /\ \A k \in DOMAIN QuerySpec :
                          Cardinality({i \in 1..Len(must) :
                                          must[i] = [match |-> (k :> QuerySpec[k])]}) = 1

C1_Witness ==
    /\ last.op = "search"
    /\ Cardinality(DOMAIN QuerySpec) = 2
    /\ Len(BuiltRequest.query.bool.must) = 2

C1_WitnessEmpty ==
    /\ last.op = "search"
    /\ args.query = None
    /\ BuiltRequest.query.bool.must = <<[match_all |-> <<>>]>>

\* C2: for every integer offset and limit the built request has
\* from = max(0, offset) and size = min(200, max(0, limit)), hence 0 <= from and
\* 0 <= size <= 200; a limit that is omitted or None gives size 20, an offset
\* that is omitted or None gives from 0.
C2_PageClamped ==
    BuilderRan =>
        LET o == IF args.offset.k = "value" THEN args.offset.v ELSE 0
            l == IF args.limit.k = "value" THEN args.limit.v ELSE 20
        IN  /\ BuiltRequest.from = (IF o < 0 THEN 0 ELSE o)
            /\ BuiltRequest.size = (IF l < 0 THEN 0 ELSE IF l > 200 THEN 200 ELSE l)
            /\ 0 <= BuiltRequest.from
            /\ 0 <= BuiltRequest.size /\ BuiltRequest.size <= 200
            /\ args.limit.k # "value" => BuiltRequest.size = 20
            /\ args.offset.k # "value" => BuiltRequest.from = 0

C2_Witness ==
    /\ last.op = "search"
    /\ args.limit.k = "value" /\ args.limit.v > 200
    /\ args.offset.k = "value" /\ args.offset.v < 0
    /\ BuiltRequest.size = 200 /\ BuiltRequest.from = 0

C2_WitnessDefault ==
    /\ last.op = "Model._build_query"
    /\ args.limit = None /\ args.offset = Omitted
    /\ BuiltRequest.size = 20 /\ BuiltRequest.from = 0

\* C3: every save() issues exactly one transport index call, whose write mode
\* is 'create' if and only if the document has no 'id' key when save() is called
\* and 'index' otherwise; when the call succeeds the document's 'id' is the id
\* the engine returned, and when it fails the error reaches the caller and
\* save() assigns no id.
C3_SaveWriteMode ==
    [][last'.op = "save" =>
          /\ Len(calls') = 1
          /\ calls'[1].op = "index"
          /\ calls'[1].op_type = (IF Has(doc, "id") THEN "index" ELSE "create")
          /\ last'.outcome = "ok" =>
                /\ Len(last'.id) = 1
                /\ Has(doc', "id") /\ doc'["id"] = last'.id[1]
                /\ Has(store', last'.id[1])
          /\ last'.outcome # "ok" =>
                /\ last'.outcome = "TransportError"
                /\ Has(doc', "id") <=> Has(doc, "id")
                /\ Has(doc, "id") => doc'["id"] = doc["id"]]_vars

C3_Witness ==
    /\ last.op = "save" /\ last.outcome = "ok"
    /\ ~last.hadId
    /\ calls[1].op_type = "create"
    /\ doc["id"] = last.id[1]

C3_WitnessFailed ==
    /\ last.op = "save" /\ last.outcome = "TransportError"
    /\ ~last.hadId
    /\ ~Has(doc, "id")

\* C4 as stated: every successful save after the first on one document
\* instance keeps 'id' and 'created' and sets 'updated' to a timestamp later
\* than the value it had before that save.
C4_UpdatedStrictlyLater ==
    [][(last'.op = "save" /\ last'.outcome = "ok" /\ saves >= 1) =>
          /\ doc'["id"] = doc["id"]
          /\ doc'["created"] = doc["created"]
          /\ TimeOf(doc'["updated"]) > TimeOf(doc["updated"])]_vars

\* C4, amended: every successful save after the first on one document instance
\* keeps 'id' and 'created' and sets 'updated' to the clock reading taken
\* during that save, which is not earlier than the value it had before (and
\* equal to it when the clock has not advanced).
C4_UpdatedNotEarlier ==
    [][(last'.op = "save" /\ last'.outcome = "ok" /\ saves >= 1) =>
          /\ doc'["id"] = doc["id"]
          /\ doc'["created"] = doc["created"]
          /\ doc'["updated"] = isoformat(clock')
          /\ TimeOf(doc'["updated"]) >= TimeOf(doc["updated"])]_vars

C4_Witness ==
    /\ last.op = "save" /\ last.outcome = "ok"
    /\ saves = 2
    /\ Has(doc, "text") /\ doc["text"] = "bye"
    /\ TimeOf(doc["updated"]) > TimeOf(doc["created"])

\* C5 as stated: in every transport write issued by save() the body sent to
\* the engine does not contain the key 'id', for first saves and for saves of
\* documents that already carry an id alike.
C5_BodyNeverHasId ==
    \A i \in 1..Len(calls) : calls[i].op = "index" => ~Has(calls[i].body, "id")

\* C5, amended: the body save() sends is the whole document, so it contains
\* the key 'id' exactly when the document carried an id when save() was called
\* (with that id as its value) and not on a first save of a document without
\* one; the id is left out only of the body the engine stores.
C5_BodyHasIdIffDocHadId ==
    [][last'.op = "save" =>
          /\ Has(calls'[1].body, "id") <=> Has(doc, "id")
          /\ Has(doc, "id") => calls'[1].body["id"] = doc["id"]
          /\ \A k \in DOMAIN doc : Has(calls'[1].body, k)
          /\ \A i \in DOMAIN store' : ~Has(store'[i], "id")]_vars

C5_Witness ==
    /\ last.op = "save" /\ last.outcome = "ok"
    /\ last.hadId
    /\ Has(calls[1].body, "id")
    /\ ~Has(store[doc["id"]], "id")

\* C6: fetch(id) returns None exactly when the engine reports not-found for
\* that id, returns a Document built from the stored body with 'id' set to the
\* requested id when the engine returns a document, lets every other transport
\* error reach the caller, and never changes what the engine stores.
C6_FetchContract ==
    [][last'.op = "fetch" =>
          /\ (last'.outcome = "ok" /\ ret' = <<None>>) <=> last'.engine = "NotFoundError"
          /\ last'.engine = "found" =>
                /\ last'.outcome = "ok"
                /\ Len(ret') = 1 /\ ret'[1].k = "value"
                /\ DOMAIN ret'[1].v = DOMAIN store[last'.id[1]] \cup {"id"}
                /\ ret'[1].v["id"] = last'.id[1]
                /\ \A k \in DOMAIN store[last'.id[1]] :
                      k # "id" => ret'[1].v[k] = store[last'.id[1]][k]
          /\ last'.engine \notin {"found", "NotFoundError"} =>
                last'.outcome = last'.engine /\ ret' = <<>>
          /\ store' = store]_vars

C6_Witness ==
    /\ last.op = "fetch" /\ last.engine = "found"
    /\ ret[1].v["id"] = "i2"
    /\ Has(ret[1].v, "text") /\ ret[1].v["text"] = "bye"

C6_WitnessAbsent ==
    /\ last.op = "fetch" /\ last.engine = "NotFoundError"
    /\ ret = <<None>>
    /\ DOMAIN store # {}

\* C7: create_all() returns normally only if index creation succeeded or
\* reported 'already exists' and the mapping installation succeeded; a mapping
\* merge conflict surfaces as a fatal error carrying the index name and the
\* rollover name <index>_<YYYY-MM-DD>; any other engine error raised by the
\* index-creation call or the put-mapping call is re-raised to the caller.
C7_CreateAllErrors ==
    last.op = "create_all" =>
        /\ last.outcome = "ok" =>
              /\ last.create \in {"ok", "IndexAlreadyExistsException",
                                  "InvalidIndexNameException"}
              /\ last.put = "ok"
        /\ last.put = "MergeMappingException" =>
              /\ last.outcome = "RuntimeError"
              /\ Len(last.message) = 4
              /\ last.message[2] = esIndex
              /\ last.message[4][1] = esIndex /\ last.message[4][2] \in Dates
        /\ last.create \in {"OtherRequestError", "TransportError"} =>
              last.outcome = last.create
        /\ last.put \in {"OtherRequestError", "TransportError"} =>
              last.outcome = last.put

\* C8 as stated: for a document that was never persisted, whatever fields it
\* holds, delete() makes no transport call, raises no error and leaves the
\* engine's stored documents unchanged.
C8_UnpersistedDeleteIsNoOp ==
    [][(last'.op = "delete" /\ ~persisted) =>
          /\ calls' = <<>>
          /\ last'.outcome = "ok"
          /\ store' = store]_vars

\* C8, amended: for a document that carries no 'id' key, delete() makes no
\* transport call, raises no error and leaves the engine's stored documents
\* unchanged; for a document that carries an id, persisted or not, exactly one
\* transport delete is attempted, by that id.
C8_DeleteOnlyById ==
    [][last'.op = "delete" =>
          /\ ~Has(doc, "id") =>
                /\ calls' = <<>>
                /\ last'.outcome = "ok"
                /\ store' = store
          /\ Has(doc, "id") =>
                /\ Len(calls') = 1
                /\ calls'[1].op = "delete"
                /\ calls'[1].id = doc["id"]
                /\ \A i \in DOMAIN store : i # doc["id"] => Has(store', i)
          /\ doc' = doc]_vars

C8_Witness ==
    /\ last.op = "delete" /\ last.outcome = "ok"
    /\ ~persisted
    /\ ~Has(doc, "id")
    /\ calls = <<>>
    /\ DOMAIN store # {}

\* C9 as stated: the first save() of a new document that has no 'id' and no
\* 'created' field assigns it an id and leaves it with 'created' equal to
\* 'updated'.
C9_CreatedEqualsUpdated ==
    [][(last'.op = "save" /\ last'.outcome = "ok"
            /\ ~Has(doc, "id") /\ ~Has(doc, "created")) =>
          /\ Has(doc', "id")
          /\ doc'["created"] = doc'["updated"]]_vars

\* C9, amended: the first save() of a new document that has no 'id' and no
\* 'created' field assigns it an id and stamps 'created' and then 'updated'
\* from two successive clock readings, so 'created' is not later than
\* 'updated' (and equal to it only when the clock did not advance between the
\* two readings).
C9_CreatedNotAfterUpdated ==
    [][(last'.op = "save" /\ last'.outcome = "ok"
            /\ ~Has(doc, "id") /\ ~Has(doc, "created")) =>
          /\ Has(doc', "id")
          /\ Has(doc', "created") /\ Has(doc', "updated")
          /\ TimeOf(doc'["created"]) >= clock
          /\ TimeOf(doc'["created"]) <= TimeOf(doc'["updated"])
          /\ TimeOf(doc'["updated"]) = clock']_vars

C9_Witness ==
    /\ last.op = "save" /\ last.outcome = "ok"
    /\ ~last.hadId /\ ~last.hadCreated
    /\ Has(doc, "id")
    /\ TimeOf(doc["created"]) < TimeOf(doc["updated"])

\* C10: for one binding and any sequence of reads of its transport handle,
\* with any changes to its host or index attributes in between, the handle is
\* constructed exactly once, on the first read, from the settings current at
\* that moment, and every later read returns that same handle.
C10_HandleBuiltOnce ==
    [][/\ accesses' = 0 => (connection' = <<>> /\ constructed' = 0)
       /\ accesses' >= 1 =>
             /\ constructed' = 1
             /\ Len(connection') = 1
             /\ connection'[1].args["host"] = firstHost'[1].hostname
             /\ Has(connection'[1].args, "port") <=> Len(firstHost'[1].port) = 1
             /\ Has(connection'[1].args, "http_auth") <=>
                    (Len(firstHost'[1].username) = 1 \/ Len(firstHost'[1].password) = 1)
             /\ Has(connection'[1].args, "url_prefix") <=> firstHost'[1].path # ""
       /\ accesses >= 1 => connection' = connection
       /\ last'.op = "conn" => ret' = connection']_vars

C10_Witness ==
    /\ last.op = "conn"
    /\ accesses = 2
    /\ constructed = 1
    /\ esHost # firstHost[1]
    /\ esIndex # "annotator"
    /\ ret[1].args["host"] = firstHost[1].hostname

====
